---- MODULE Spec2Model ----
(***************************************************************************)
(* Job board API: the two route groups /api/jobs (list, create) and        *)
(* /api/jobs/{id} (get, approve, delete), their zod schemas, and the       *)
(* `jobs` table of the store they call.  Requests are handled by           *)
(* concurrent handlers; a handler is atomic between two store round trips. *)
(***************************************************************************)
EXTENDS Integers, Sequences, FiniteSets, Bags

\* ------------------------------------------------------------------ bounds

\* Number of approve requests that can be between their two store calls at
\* the same time (every other request is one store call, hence one step).
MaxInFlight == 1
\* Largest id the store's sequence hands out, and largest id a client names.
MaxId == 2
\* Clock readings are 0..MaxTime milliseconds after the epoch.
MaxTime == 1

Ids == 1..MaxId
Times == 0..MaxTime

\* --------------------------------------------------------- JSON values

\* Strings are sequences of one-character strings.
\* A JSON value: its JavaScript type and, by type, its payload.
Undefined == [t |-> "undefined", n |-> 0, s |-> <<>>, b |-> FALSE]
Null == [t |-> "null", n |-> 0, s |-> <<>>, b |-> FALSE]
Num(n) == [t |-> "number", n |-> n, s |-> <<>>, b |-> FALSE]
Str(s) == [t |-> "string", n |-> 0, s |-> s, b |-> FALSE]
Bool(b) == [t |-> "boolean", n |-> 0, s |-> <<>>, b |-> b]

\* The keys of jobSchema, in declaration order.
Keys ==
  << "id", "slug", "title", "type", "location_type", "location",
     "description", "salary", "company_name", "application_email",
     "application_url", "company_logo_url", "approved", "created_at",
     "updated_at" >>

KeySet == {Keys[i] : i \in 1..Len(Keys)}

\* A request body as req.json() yields it: not JSON at all, a JSON value that
\* is no object, or an object (a key it lacks reads as undefined).
Unparsable == [kind |-> "unparsable", f |-> [k \in KeySet |-> Undefined]]
NonObject == [kind |-> "nonobject", f |-> [k \in KeySet |-> Undefined]]
Obj(f) == [kind |-> "object", f |-> f]
\* A request that carries no body (GET, DELETE).
NoBody == [kind |-> "none", f |-> [k \in KeySet |-> Undefined]]

\* ------------------------------------------------------ string helpers

Digits == <<"0", "1", "2", "3", "4", "5", "6", "7", "8", "9">>

IsDigit(c) == \E i \in 1..10 : Digits[i] = c

DigitVal(c) == (CHOOSE i \in 1..10 : Digits[i] = c) - 1

Contains(s, c) == \E i \in 1..Len(s) : s[i] = c

IndexOf(s, c) == CHOOSE i \in 1..Len(s) : s[i] = c /\ \A j \in 1..(i - 1) : s[j] # c

\* Date.prototype.toISOString for an instant t milliseconds after the epoch,
\* t < 1000: "1970-01-01T00:00:00.mmmZ".
ToISOString(t) ==
  << "1", "9", "7", "0", "-", "0", "1", "-", "0", "1", "T",
     "0", "0", ":", "0", "0", ":", "0", "0", "." >>
  \o << Digits[((t \div 100) % 10) + 1], Digits[((t \div 10) % 10) + 1],
        Digits[(t % 10) + 1] >>
  \o << "Z" >>

\* The text of a non-negative integer, as a path segment carries it.
RECURSIVE IdText(_)
IdText(n) ==
  IF n < 10 THEN << Digits[n + 1] >>
  ELSE IdText(n \div 10) \o << Digits[(n % 10) + 1] >>

\* -------------------------------------------------- validation schemas

\* z.string().email(): one "@", a local part that does not start with a dot,
\* a domain of dot-separated labels ending in a label of two letters or more
\* (the shape zod's pattern accepts, without its character classes).
IsEmail(s) ==
  /\ Cardinality({i \in 1..Len(s) : s[i] = "@"}) = 1
  /\ LET at == IndexOf(s, "@")
         dots == {i \in (at + 1)..Len(s) : s[i] = "."}
     IN /\ at > 1
        /\ s[1] # "."
        /\ dots # {}
        /\ \A i \in dots : i > at + 1 /\ i < Len(s) /\ s[i + 1] # "."
        /\ \A i \in dots : (\A j \in dots : j <= i) => Len(s) - i >= 2

\* z.string().url(): new URL(s) accepts s, i.e. s starts with a scheme, a
\* letter followed by a ":" somewhere, and has something after it.
IsUrl(s) ==
  /\ Len(s) >= 3
  /\ ~IsDigit(s[1]) /\ s[1] \notin {":", "/", ".", "@"}
  /\ Contains(s, ":")
  /\ IndexOf(s, ":") < Len(s)

NoIssue == "ok"

\* z.string().min(1)
StringMin1(v) ==
  IF v.t # "string" THEN "invalid_type"
  ELSE IF Len(v.s) < 1 THEN "too_small" ELSE NoIssue

\* z.string()
StringReq(v) == IF v.t # "string" THEN "invalid_type" ELSE NoIssue

\* z.string().optional()
StringOpt(v) == IF v.t = "undefined" THEN NoIssue ELSE StringReq(v)

\* z.number().optional()
NumberOpt(v) == IF v.t \in {"undefined", "number"} THEN NoIssue ELSE "invalid_type"

\* z.number(): the salary check without its range.
NumberAnySign(v) == IF v.t # "number" THEN "invalid_type" ELSE NoIssue

\* z.number().nonnegative()
NumberNonnegative(v) ==
  IF v.t # "number" THEN "invalid_type"
  ELSE IF v.n < 0 THEN "too_small" ELSE NoIssue

\* z.string().email().optional()
EmailOpt(v) ==
  IF v.t = "undefined" THEN NoIssue
  ELSE IF v.t # "string" THEN "invalid_type"
  ELSE IF ~IsEmail(v.s) THEN "invalid_string" ELSE NoIssue

\* z.string().url().optional()
UrlOpt(v) ==
  IF v.t = "undefined" THEN NoIssue
  ELSE IF v.t # "string" THEN "invalid_type"
  ELSE IF ~IsUrl(v.s) THEN "invalid_string" ELSE NoIssue

\* z.boolean()
BooleanReq(v) == IF v.t # "boolean" THEN "invalid_type" ELSE NoIssue

\* The check jobSchema declares for key k, applied to value v.
JobKeyIssue(k, v) ==
  CASE k = "id" -> NumberOpt(v)
    [] k \in {"slug", "title", "type", "location_type", "company_name"} -> StringMin1(v)
    [] k \in {"location", "description"} -> StringOpt(v)
    [] k = "salary" -> NumberNonnegative(v)
    [] k = "application_email" -> EmailOpt(v)
    [] k \in {"application_url", "company_logo_url"} -> UrlOpt(v)
    [] k = "approved" -> BooleanReq(v)
    [] k \in {"created_at", "updated_at"} -> StringReq(v)

\* The issues of the keys from the i-th on, in declaration order.
RECURSIVE JobIssuesFrom(_, _)
JobIssuesFrom(f, i) ==
  IF i > Len(Keys) THEN << >>
  ELSE LET code == JobKeyIssue(Keys[i], f[Keys[i]])
       IN (IF code = NoIssue THEN << >> ELSE << [path |-> Keys[i], code |-> code] >>)
          \o JobIssuesFrom(f, i + 1)

NoData == [k \in KeySet |-> Undefined]

\* jobSchema.safeParse(body): success with the parsed keys, or the issues.
JobSchemaParse(body) ==
  IF body.kind # "object"
  THEN [success |-> FALSE, data |-> NoData,
        errors |-> << [path |-> "", code |-> "invalid_type"] >>]
  ELSE LET issues == JobIssuesFrom(body.f, 1)
       IN [success |-> issues = << >>,
           data |-> IF issues = << >> THEN body.f ELSE NoData,
           errors |-> issues]

\* approved: z.boolean() in place of z.literal(true).
approveAnyBoolean(body) ==
  IF body.kind # "object"
  THEN [success |-> FALSE, errors |-> << [path |-> "", code |-> "invalid_type"] >>]
  ELSE IF body.f["approved"].t = "boolean"
  THEN [success |-> TRUE, errors |-> << >>]
  ELSE [success |-> FALSE,
        errors |-> << [path |-> "approved", code |-> "invalid_type"] >>]

\* approveJobSchema.safeParse(body): approved must be the literal true.
approveJobSchema(body) ==
  IF body.kind # "object"
  THEN [success |-> FALSE, errors |-> << [path |-> "", code |-> "invalid_type"] >>]
  ELSE IF body.f["approved"] = Bool(TRUE)
  THEN [success |-> TRUE, errors |-> << >>]
  ELSE [success |-> FALSE,
        errors |-> << [path |-> "approved", code |-> "invalid_literal"] >>]

\* ------------------------------------------------------ the jobs table

\* A row of the table: a value per column, the id a number.
\* A path id is text; the store casts it to the id column's integer type.
IsNumeric(s) == Len(s) >= 1 /\ \A i \in 1..Len(s) : IsDigit(s[i])

RECURSIVE ParseInt(_)
ParseInt(s) ==
  IF Len(s) = 0 THEN 0
  ELSE 10 * ParseInt(SubSeq(s, 1, Len(s) - 1)) + DigitVal(s[Len(s)])

\* The rows the filter .eq("id", id) selects.
RowsWithId(tbl, id) ==
  IF IsNumeric(id) THEN {r \in tbl : r["id"].n = ParseInt(id)} ELSE {}

\* A store call ends in a result or in an error (fail: the transport or the
\* store itself failed; a filter value that is no integer is an error too).

\* from("jobs").select("*")
SelectAll(tbl, fail) ==
  [error |-> fail, rows |-> IF fail THEN {} ELSE tbl]

\* from("jobs").select("*").eq("id", id).single(): one row, or an error when
\* the filter selects no row.
SelectSingle(tbl, id, fail) ==
  LET m == RowsWithId(tbl, id)
  IN IF fail \/ ~IsNumeric(id) \/ Cardinality(m) # 1
     THEN [error |-> TRUE, data |-> NoData]
     ELSE [error |-> FALSE, data |-> CHOOSE r \in m : TRUE]

\* from("jobs").insert(data): the row gets the id data names, or else the
\* next value of the table's sequence; ids are unique; a column data lacks is
\* stored as null.
InsertOne(tbl, sq, data, fail) ==
  LET explicit == data["id"].t = "number"
      newId == IF explicit THEN data["id"].n ELSE sq
      nextSeq == IF explicit THEN sq ELSE sq + 1
      row == [k \in KeySet |->
                IF k = "id" THEN Num(newId)
                ELSE IF data[k].t = "undefined" THEN Null ELSE data[k]]
  IN IF fail THEN [error |-> TRUE, table |-> tbl, seq |-> sq]
     ELSE IF \E r \in tbl : r["id"].n = newId
     THEN [error |-> TRUE, table |-> tbl, seq |-> nextSeq]
     ELSE [error |-> FALSE, table |-> tbl \cup {row}, seq |-> nextSeq]

\* from("jobs").update(patch).eq("id", id): every selected row takes the
\* patch's columns; selecting no row is no error.
UpdateById(tbl, id, patch, fail) ==
  LET m == RowsWithId(tbl, id)
      patched(r) == [k \in KeySet |-> IF patch[k].t = "undefined" THEN r[k] ELSE patch[k]]
  IN IF fail \/ ~IsNumeric(id) THEN [error |-> TRUE, table |-> tbl]
     ELSE [error |-> FALSE, table |-> (tbl \ m) \cup {patched(r) : r \in m}]

\* from("jobs").delete().eq("id", id): the selected rows go; selecting no row
\* is no error.
DeleteById(tbl, id, fail) ==
  IF fail \/ ~IsNumeric(id) THEN [error |-> TRUE, table |-> tbl]
  ELSE [error |-> FALSE, table |-> tbl \ RowsWithId(tbl, id)]

\* A store call as a handler issues it, and whether the store answered it
\* with an error.
Call(op, id, data, error) == [op |-> op, id |-> id, data |-> data, error |-> error]

\* ------------------------------------------------------------ responses

\* What a handler ends in: a JSON response (status, and by case the issue
\* list, a message, a row, the rows), or an exception that leaves the handler.
Json(status, error, msg, job, rows) ==
  [status |-> status, threw |-> FALSE, error |-> error, msg |-> msg,
   job |-> job, jobs |-> rows]

Message(status, msg) == Json(status, << >>, msg, NoData, {})

Threw == [status |-> 0, threw |-> TRUE, error |-> << >>, msg |-> "SyntaxError",
          job |-> NoData, jobs |-> {}]

\* No response yet: the handler is between two store calls.
Pending == [status |-> 0, threw |-> FALSE, error |-> << >>, msg |-> "",
            job |-> NoData, jobs |-> {}]

\* --------------------------------------------------------------- inputs

\* A payload jobSchema accepts: the required keys, and of the optional ones
\* the application email and url.
BaseJob ==
  [k \in KeySet |->
     CASE k = "slug" -> Str(<< "e", "1" >>)
       [] k = "title" -> Str(<< "E", "n", "g" >>)
       [] k = "type" -> Str(<< "f", "t" >>)
       [] k = "location_type" -> Str(<< "r" >>)
       [] k = "salary" -> Num(90000)
       [] k = "company_name" -> Str(<< "A" >>)
       [] k = "application_email" -> Str(<< "a", "@", "b", ".", "c", "o" >>)
       [] k = "application_url" -> Str(<< "h", ":", "/", "/", "b" >>)
       [] k = "approved" -> Bool(FALSE)
       [] k = "created_at" -> Str(ToISOString(0))
       [] k = "updated_at" -> Str(ToISOString(0))
       [] OTHER -> Undefined]

RequiredKeys ==
  {"slug", "title", "type", "location_type", "salary", "company_name",
   "approved", "created_at", "updated_at"}

\* What a client names as the id of a new job: nothing, or an id.
ClientIds == {Undefined} \cup {Num(n) : n \in Ids}

ValidJobs ==
  {[BaseJob EXCEPT !["approved"] = Bool(a), !["id"] = i] :
     a \in BOOLEAN, i \in ClientIds}

InvalidJobs ==
  {[BaseJob EXCEPT ![k] = Undefined] : k \in RequiredKeys}
  \cup {[BaseJob EXCEPT !["salary"] = Num(0 - 1)],
        [BaseJob EXCEPT !["salary"] = Num(0 - 1), !["id"] = Num(1), !["approved"] = Bool(TRUE)],
        [BaseJob EXCEPT !["slug"] = Undefined, !["salary"] = Num(0 - 1)],
        [BaseJob EXCEPT !["salary"] = Str(<< "9" >>)],
        [BaseJob EXCEPT !["slug"] = Str(<< >>)],
        [BaseJob EXCEPT !["id"] = Str(<< "1" >>)],
        [BaseJob EXCEPT !["location"] = Null],
        [BaseJob EXCEPT !["application_email"] = Str(<< "a", "@", "b" >>)],
        [BaseJob EXCEPT !["company_logo_url"] = Str(<< "b", ".", "c", "o" >>)]}

CreateBodies ==
  {Obj(f) : f \in ValidJobs \cup InvalidJobs} \cup {NonObject, Unparsable}

ApproveBodies ==
  {Obj([NoData EXCEPT !["approved"] = v]) :
     v \in {Bool(TRUE), Bool(FALSE), Undefined, Str(<< "t", "r", "u", "e" >>)}}
  \cup {Obj(BaseJob), NonObject, Unparsable}

\* The id segment of a path: the text of an id, or nothing.
PathIds == {IdText(n) : n \in Ids} \cup {<< >>}

\* The outcomes of the store call a handler may issue: none to choose when
\* the handler answers before it calls the store.
Outcomes(callsStore) == IF callsStore THEN BOOLEAN ELSE {FALSE}

\* The readings of the clock a handler may get: none to choose when the
\* handler does not reach new Date().
Readings(readsClock) == IF readsClock THEN Times ELSE {0}

\* jobSchema.safeParse over the payloads above, computed once.
JobSchemaTable == [b \in CreateBodies |-> JobSchemaParse(b)]

jobSchema(body) == JobSchemaTable[body]

\* ------------------------------------------------------------- handlers

\* Each handler, as a function of its request, the table it meets and the
\* outcome of its store call: the response, the store calls it issued and
\* the table it leaves.

\* GET /api/jobs
ListHandler(tbl, fail) ==
  LET r == SelectAll(tbl, fail)
  IN [res |-> IF r.error THEN Message(500, "error.message")
              ELSE Json(200, << >>, "", NoData, r.rows),
      calls |-> << Call("select", << >>, NoData, r.error) >>,
      table |-> tbl]

\* POST /api/jobs
PostHandler(body, tbl, sq, fail) ==
  IF body.kind = "unparsable"
  THEN [res |-> Message(500, "Failed to create job"), calls |-> << >>,
        table |-> tbl, seq |-> sq]
  ELSE LET validatedJob == jobSchema(body)
       IN IF ~validatedJob.success
          THEN [res |-> Json(400, validatedJob.errors, "", NoData, {}),
                calls |-> << >>, table |-> tbl, seq |-> sq]
          ELSE LET r == InsertOne(tbl, sq, validatedJob.data, fail)
               IN [res |-> IF r.error THEN Message(500, "error.message")
                           ELSE Message(201, "job created successfully"),
                   calls |-> << Call("insert", << >>, validatedJob.data, r.error) >>,
                   table |-> r.table, seq |-> r.seq]

\* GET /api/jobs/{id}
GetHandler(id, tbl, fail) ==
  LET r == SelectSingle(tbl, id, fail)
  IN [res |-> IF r.error \/ r.data = NoData THEN Message(404, "Job not found")
              ELSE Json(200, << >>, "", r.data, {}),
      calls |-> << Call("select", id, NoData, r.error) >>,
      table |-> tbl]

\* PUT: a failed read answered as a server error.
PutNotFoundAs500(id) == Message(500, "Internal server error")

\* PUT: the response when the row to approve is not read.
PutNotFound(id) == Message(404, "Job with ID ${id} not found")

\* PUT: the view returned to the caller, the row read with approved and
\* updated_at overlaid.
UpdatedJob(existingJob, now) ==
  [existingJob EXCEPT !["approved"] = Bool(TRUE),
                      !["updated_at"] = Str(ToISOString(now))]

\* PUT: a write of updated_at alone.
ApprovePatchStampOnly(updatedJob) ==
  [k \in KeySet |->
     IF k = "updated_at" THEN updatedJob["updated_at"] ELSE Undefined]

\* PUT: the columns written, approved and updated_at.
ApprovePatch(updatedJob) ==
  [k \in KeySet |->
     IF k = "approved" THEN Bool(TRUE)
     ELSE IF k = "updated_at" THEN updatedJob["updated_at"] ELSE Undefined]

\* PUT /api/jobs/{id}, up to the read of the row: a response, or (go) the
\* view to write next.
PutHandler(id, body, tbl, fail, now) ==
  LET stop(res, calls) ==
        [res |-> res, calls |-> calls, go |-> FALSE,
         existingJob |-> NoData, updatedJob |-> NoData]
  IN IF id = << >> THEN stop(Message(400, "ID is required"), << >>)
     ELSE IF body.kind = "unparsable" THEN stop(Threw, << >>)
     ELSE LET parseResult == approveJobSchema(body)
          IN IF ~parseResult.success
             THEN stop(Json(400, parseResult.errors, "", NoData, {}), << >>)
             ELSE LET r == SelectSingle(tbl, id, fail)
                  IN IF r.error \/ r.data = NoData
                     THEN stop(PutNotFound(id), << Call("select", id, NoData, r.error) >>)
                     ELSE [res |-> Pending,
                           calls |-> << Call("select", id, NoData, r.error) >>,
                           go |-> TRUE,
                           existingJob |-> r.data,
                           updatedJob |-> UpdatedJob(r.data, now)]

\* PUT /api/jobs/{id}, from the write of the row on.
PutUpdateHandler(loc, tbl, fail) ==
  LET patch == ApprovePatch(loc.updatedJob)
      r == UpdateById(tbl, loc.id, patch, fail)
  IN [res |-> IF r.error THEN Message(500, "Failed to approve job")
              ELSE Json(200, << >>, "Job approved successfully", loc.updatedJob, {}),
      calls |-> << Call("select", loc.id, NoData, FALSE), Call("update", loc.id, patch, r.error) >>,
      table |-> r.table]

\* DELETE that does not look at the store's error.
DeleteHandlerNoErrorCheck(id, tbl, fail) ==
  LET r == DeleteById(tbl, id, fail)
  IN [res |-> Message(200, "Job deleted successfully"),
      calls |-> << Call("delete", id, NoData, r.error) >>,
      table |-> r.table]

\* DELETE /api/jobs/{id}
DeleteHandler(id, tbl, fail) ==
  LET r == DeleteById(tbl, id, fail)
  IN [res |-> IF r.error THEN Message(404, "Job not found")
              ELSE Message(200, "Job deleted successfully"),
      calls |-> << Call("delete", id, NoData, r.error) >>,
      table |-> r.table]

\* ---------------------------------------------------------------- state

VARIABLES
  jobs,      \* the rows of the store's jobs table
  seq,       \* the next id the table's sequence hands out
  inflight,  \* the approve requests between their read and their write: a
             \* bag of [id, existingJob, updatedJob]
  last       \* the request handled by the latest step, its response and the
             \* store calls its handler issued

vars == << jobs, seq, inflight, last >>

Handled(op, id, body, res, calls) ==
  [op |-> op, id |-> id, body |-> body, res |-> res, calls |-> calls]

Init ==
  /\ jobs = {}
  /\ seq = 1
  /\ inflight = EmptyBag
  /\ last = Handled("none", << >>, NoBody, Pending, << >>)

\* -------------------------------------------------------------- actions

LIST ==
  /\ \E fail \in BOOLEAN :
       \E h \in {ListHandler(jobs, fail)} :
         /\ last' = Handled("LIST", << >>, NoBody, h.res, h.calls)
         /\ jobs' = h.table
  /\ UNCHANGED << seq, inflight >>

POST ==
  /\ \E body \in CreateBodies :
       \E fail \in Outcomes(jobSchema(body).success) :
         \E h \in {PostHandler(body, jobs, seq, fail)} :
           /\ h.seq <= MaxId + 1
           /\ last' = Handled("POST", << >>, body, h.res, h.calls)
           /\ jobs' = h.table
           /\ seq' = h.seq
  /\ UNCHANGED inflight

GET ==
  /\ \E id \in PathIds, fail \in BOOLEAN :
       \E h \in {GetHandler(id, jobs, fail)} :
         /\ last' = Handled("GET", id, NoBody, h.res, h.calls)
         /\ jobs' = h.table
  /\ UNCHANGED << seq, inflight >>

PUT ==
  /\ \E id \in PathIds, body \in ApproveBodies :
       \E fail \in Outcomes(id # << >> /\ approveJobSchema(body).success) :
         \E now \in Readings(fail = FALSE /\ RowsWithId(jobs, id) # {}) :
           \E h \in {PutHandler(id, body, jobs, fail, now)} :
             /\ h.go => BagCardinality(inflight) < MaxInFlight
             /\ last' = Handled("PUT", id, body, h.res, h.calls)
             /\ inflight' =
                  IF h.go
                  THEN inflight (+) SetToBag({[id |-> id, existingJob |-> h.existingJob,
                                                updatedJob |-> h.updatedJob]})
                  ELSE inflight
  /\ UNCHANGED << jobs, seq >>

PUTUpdate ==
  /\ \E loc \in BagToSet(inflight), fail \in BOOLEAN :
       \E h \in {PutUpdateHandler(loc, jobs, fail)} :
         /\ last' = Handled("PUT", loc.id, Obj([NoData EXCEPT !["approved"] = Bool(TRUE)]),
                            h.res, h.calls)
         /\ jobs' = h.table
         /\ inflight' = inflight (-) SetToBag({loc})
  /\ UNCHANGED seq

DELETE ==
  /\ \E id \in PathIds, fail \in BOOLEAN :
       \E h \in {DeleteHandler(id, jobs, fail)} :
         /\ last' = Handled("DELETE", id, NoBody, h.res, h.calls)
         /\ jobs' = h.table
  /\ UNCHANGED << seq, inflight >>

Next ==
  \/ LIST
  \/ POST
  \/ GET
  \/ PUT
  \/ PUTUpdate
  \/ DELETE

Spec == Init /\ [][Next]_vars

\* --------------------------------------------------------------- claims

\* The step that has just been taken handled request `last'`; the table it
\* met is `jobs`, the table it left is `jobs'`.

IdsOf(tbl) == {r["id"].n : r \in tbl}

\* The rows of tbl under other ids than the path id.
OtherRows(tbl, id) == tbl \ RowsWithId(tbl, id)

MissingRequiredOrNegativeSalary(body) ==
  /\ body.kind = "object"
  /\ \/ \E k \in RequiredKeys : body.f[k].t = "undefined"
     \/ body.f["salary"].t = "number" /\ body.f["salary"].n < 0

ApprovedFalseOrMissing(body) ==
  /\ body.kind = "object"
  /\ body.f["approved"] \in {Bool(FALSE), Undefined}

ApprovedTrue(body) == body.kind = "object" /\ body.f["approved"] = Bool(TRUE)

\* The step is PUT's first part (up to the read) / its second part (the write).
IsPutRead(h) == h.op = "PUT" /\ Len(h.calls) <= 1
IsPutWrite(h) == h.op = "PUT" /\ Len(h.calls) = 2

\* C1: a create whose payload lacks a required field or has a negative
\* salary is answered 400 with at least one issue, issues no store call, and
\* leaves the table (and its sequence) as it was.
C1_CreateRejectsInvalid ==
  [][(last'.op = "POST" /\ MissingRequiredOrNegativeSalary(last'.body))
       => /\ last'.res.status = 400
          /\ ~last'.res.threw
          /\ Len(last'.res.error) >= 1
          /\ last'.calls = << >>
          /\ jobs' = jobs
          /\ seq' = seq]_vars

C1_Witness ==
  /\ last.op = "POST"
  /\ MissingRequiredOrNegativeSalary(last.body)
  /\ last.body.f["salary"] = Num(0 - 1)
  /\ last.res.status = 400
  /\ jobs # {}

\* C2: an approve whose body has approved false or lacks approved is
\* answered 400 whatever the id, issues no store call (no read, no write),
\* and leaves every row as it was.
C2_ApproveRejectsNotTrue ==
  [][(last'.op = "PUT" /\ ApprovedFalseOrMissing(last'.body))
       => /\ last'.res.status = 400
          /\ ~last'.res.threw
          /\ last'.calls = << >>
          /\ jobs' = jobs
          /\ inflight' = inflight]_vars

C2_Witness ==
  /\ last.op = "PUT"
  /\ last.body.kind = "object" /\ last.body.f["approved"] = Bool(FALSE)
  /\ last.res.status = 400
  /\ \E r \in RowsWithId(jobs, last.id) : r["approved"] = Bool(FALSE)

\* C3: an approve with body {approved: true} on an id under which the table
\* holds no row when the handler reads it is answered 404, not 500, issues no
\* update, and leaves the table as it was.
C3_ApproveMissingIs404 ==
  [][(/\ IsPutRead(last')
      /\ last'.id # << >>
      /\ ApprovedTrue(last'.body)
      /\ RowsWithId(jobs, last'.id) = {})
       => /\ last'.res.status = 404
          /\ ~last'.res.threw
          /\ \A i \in 1..Len(last'.calls) : last'.calls[i].op = "select"
          /\ jobs' = jobs
          /\ inflight' = inflight]_vars

C3_Witness ==
  /\ IsPutRead(last)
  /\ last.id # << >>
  /\ ApprovedTrue(last.body)
  /\ RowsWithId(jobs, last.id) = {}
  /\ jobs # {}
  /\ last.res.status = 404

\* C4, as claimed: an approve on a stored job is answered 200 and leaves the
\* row approved, with an updated_at other than before when the job was
\* unapproved (a first approve); so is a second approve.
C4_AsClaimed ==
  [][(/\ last'.op = "PUT"
      /\ last'.res # Pending
      /\ last'.id # << >>
      /\ ApprovedTrue(last'.body)
      /\ RowsWithId(jobs, last'.id) # {})
       => /\ last'.res.status = 200
          /\ RowsWithId(jobs', last'.id) # {}
          /\ \A r \in RowsWithId(jobs', last'.id) : r["approved"] = Bool(TRUE)
          /\ \A q \in RowsWithId(jobs, last'.id), r \in RowsWithId(jobs', last'.id) :
               q["approved"] = Bool(FALSE) => r["updated_at"] # q["updated_at"]]_vars

\* C4, amended: an approve on a stored job is answered 200 exactly when the
\* store answers its read and its write without error (404 after a failed
\* read, 500 after a failed write, the table then as it was).  Answered 200,
\* it has written approved = true and updated_at = the handler's clock
\* reading in ISO form, the text it returns in job, to the row under that id
\* (to none if the row is gone by then), and nothing else; this holds of a
\* first approve and of every later one, so an approved row stays approved.
C4_Approve ==
  [][/\ (/\ IsPutRead(last')
         /\ last'.id # << >>
         /\ ApprovedTrue(last'.body)
         /\ RowsWithId(jobs, last'.id) # {})
          => /\ last'.calls[1].error => last'.res.status = 404
             /\ ~last'.calls[1].error => last'.res = Pending
             /\ jobs' = jobs
     /\ IsPutWrite(last')
          => LET id == last'.id
                 job == last'.res.job
             IN /\ last'.calls[2].error
                     => last'.res.status = 500 /\ jobs' = jobs
                /\ ~last'.calls[2].error
                     => /\ last'.res.status = 200
                        /\ job["approved"] = Bool(TRUE)
                        /\ \E t \in Times : job["updated_at"] = Str(ToISOString(t))
                        /\ RowsWithId(jobs', id) =
                             {[q EXCEPT !["approved"] = Bool(TRUE),
                                        !["updated_at"] = job["updated_at"]] :
                                q \in RowsWithId(jobs, id)}
                        /\ OtherRows(jobs', id) = OtherRows(jobs, id)]_vars

C4_Witness ==
  /\ IsPutWrite(last)
  /\ last.res.status = 200
  /\ \E r \in RowsWithId(jobs, last.id) :
       /\ r["approved"] = Bool(TRUE)
       /\ r["updated_at"] = last.res.job["updated_at"]
       /\ r["updated_at"] # r["created_at"]

\* C5: a delete on an id under which the table holds no row is answered 404.
C5_DeleteMissingIs404 ==
  [][(last'.op = "DELETE" /\ RowsWithId(jobs, last'.id) = {})
       => last'.res.status = 404]_vars

\* C6: a row is approved only if it was approved already or the step is an
\* approve on its id answered 200: no other step, a create in particular,
\* stores an approved row.
C6_ApprovedOnlyByApprove ==
  [][\A r \in jobs' :
       r["approved"] = Bool(TRUE)
         => \/ \E q \in jobs : q["id"] = r["id"] /\ q["approved"] = Bool(TRUE)
            \/ /\ IsPutWrite(last')
               /\ last'.res.status = 200
               /\ r \in RowsWithId(jobs', last'.id)]_vars

\* C7: no insert the create handler issues carries an id: the id of a row is
\* the store's to assign.
C7_InsertCarriesNoId ==
  \A i \in 1..Len(last.calls) :
    last.calls[i].op = "insert" => last.calls[i].data["id"] = Undefined

\* C8: every request ends in a JSON response: no exception leaves a handler.
C8_NoExceptionEscapes == ~last.res.threw

\* C9, as claimed: a delete answered 200 leaves no row under its id; no step
\* but a create adds a row, so a get on that id is answered 404 and a list
\* shows no such row until a create; and a get on a stored row (the get
\* before the delete) is answered 200 with that row.
C9_AsClaimed ==
  [][/\ (last'.op = "DELETE" /\ last'.res.status = 200)
          => RowsWithId(jobs', last'.id) = {}
     /\ last'.op # "POST" => IdsOf(jobs') \subseteq IdsOf(jobs)
     /\ (last'.op = "GET" /\ RowsWithId(jobs, last'.id) = {})
          => last'.res.status = 404
     /\ (last'.op = "LIST" /\ last'.res.status = 200) => last'.res.jobs = jobs
     /\ (last'.op = "GET" /\ RowsWithId(jobs, last'.id) # {})
          => last'.res.status = 200 /\ last'.res.job \in RowsWithId(jobs, last'.id)]_vars

\* C9, amended: as claimed, but the get on a stored row is answered 200 with
\* that row only when the store answers the read without error; it is
\* answered 404 when the store answers with an error.
C9_DeleteThenGet ==
  [][/\ (last'.op = "DELETE" /\ last'.res.status = 200)
          => /\ RowsWithId(jobs', last'.id) = {}
             /\ OtherRows(jobs', last'.id) = OtherRows(jobs, last'.id)
     /\ last'.op # "POST" => IdsOf(jobs') \subseteq IdsOf(jobs)
     /\ (last'.op = "GET" /\ RowsWithId(jobs, last'.id) = {})
          => last'.res.status = 404
     /\ (last'.op = "LIST" /\ last'.res.status = 200) => last'.res.jobs = jobs
     /\ (last'.op = "GET" /\ RowsWithId(jobs, last'.id) # {})
          => /\ ~last'.calls[1].error
                  => /\ last'.res.status = 200
                     /\ last'.res.job \in RowsWithId(jobs, last'.id)
             /\ last'.calls[1].error => last'.res.status = 404]_vars

\* A get on id 1 answered 404 after the row under id 1 has been deleted: the
\* sequence has moved, so a row under id 1 was stored, and only a delete
\* answered 200 removes a row.
C9_Witness ==
  /\ last.op = "GET"
  /\ last.id = IdText(1)
  /\ last.res.status = 404
  /\ seq > 1
  /\ RowsWithId(jobs, last.id) = {}
  /\ jobs # {}

\* C10: an approve answered 200 has, when its write completes, a row under
\* its id in the table, approved.
C10_ApproveOkHasRow ==
  [][(last'.op = "PUT" /\ last'.res.status = 200)
       => \E r \in RowsWithId(jobs', last'.id) : r["approved"] = Bool(TRUE)]_vars

====
